---- MODULE Spec2Model ----
(***************************************************************************)
(* Model of ReleaseNotifier (gh-release-update-notifier): the two-tier     *)
(* release cache with its freshness window, the release resolution         *)
(* (draft / prerelease filtering over the list sorted by publish time) and *)
(* the version check (tag matching and publish-time comparison).           *)
(*                                                                         *)
(* One notifier instance is modelled.  A resolving call runs synchronously *)
(* up to `await fetch(...)`; everything after the response is again        *)
(* synchronous, so a call is two steps: StartCall and CompleteFetch or     *)
(* FailFetch.  Several calls may be in flight at once.  A call served from *)
(* the cache completes within StartCall and changes nothing but `result`,  *)
(* so only the requests sent to the source are bounded.                    *)
(*                                                                         *)
(* Four specifications share the actions: Spec (the cache protocol with    *)
(* every operation), SpecResolver (one call over every release list),      *)
(* SpecDisk (the cache file: failing writes, clearCache, and a second      *)
(* instance constructed on the file the first one left) and SpecCheck      *)
(* (overlapping checkVersion calls against a source whose list changes).   *)
(***************************************************************************)
EXTENDS Integers, Sequences, FiniteSets, TLC

(* ------------------------------ bounds --------------------------------- *)
MaxLen == 2        \* longest release list the source returns (SpecResolver)
MaxTick == 2       \* clock ticks after construction
MaxFetches == 2    \* requests sent to the source in one behaviour
MaxCalls == 2      \* resolving calls in flight at the same time
Epoch == 3         \* Date.now() at construction

(* ------------------------------ values --------------------------------- *)
\* JavaScript values that may be an array, null or undefined.
Null == [k |-> "null", v |-> <<>>]
Undefined == [k |-> "undefined", v |-> <<>>]
Arr(s) == [k |-> "array", v |-> s]
\* A number, or undefined (a field missing from the parsed cache file).
Num(n) == [k |-> "number", n |-> n]
NoNum == [k |-> "undefined", n |-> 0]
\* An optional value (T | null) is a sequence of length at most one.
None == <<>>
Some(x) == <<x>>

\* Strings that are inspected character by character are character tuples.
Whitespace == {" "}
Tags == { <<"v", "1">>, <<"1">>, <<"v", "2">> }
Versions == { <<"v", "1">>, <<"1">>, <<" ", "V", "1", " ">>, <<"v", "v", "1">>, <<"v", "3">> }

\* published_at strings: calendar day, hour and UTC offset of an ISO 8601
\* date.  The last two denote the same instant.
Dates == { [day |-> 1, hour |-> 0, tz |-> 0],
           [day |-> 2, hour |-> 0, tz |-> 0],
           [day |-> 2, hour |-> 1, tz |-> 1] }

GitHubReleaseResponse ==
    [tag_name : Tags, published_at : Dates, prerelease : BOOLEAN, draft : BOOLEAN]

ListsUpTo(S, n) == UNION { [1..m -> S] : m \in 0..n }
ReleaseLists == ListsUpTo(GitHubReleaseResponse, MaxLen)

Rel(t, d, p, dr) == [tag_name |-> t, published_at |-> d, prerelease |-> p, draft |-> dr]
D1 == [day |-> 1, hour |-> 0, tz |-> 0]
D2 == [day |-> 2, hour |-> 0, tz |-> 0]
D2b == [day |-> 2, hour |-> 1, tz |-> 1]

\* The lists the source serves in the cache-protocol specification: both are
\* out of publish order and carry a draft and a prerelease.
FeedA == << Rel(<<"v", "1">>, D1, FALSE, FALSE),
            Rel(<<"v", "2">>, D2, FALSE, FALSE),
            Rel(<<"1">>, D2b, TRUE, TRUE) >>
FeedB == << Rel(<<"1">>, D1, TRUE, FALSE),
            Rel(<<"v", "2">>, D2, FALSE, TRUE),
            Rel(<<"v", "1">>, D1, FALSE, FALSE) >>
Feeds == { FeedA, FeedB }

CheckIntervals == { -1, 0, 2 }

(* --------------------------- pure functions ---------------------------- *)
\* new Date(s).getTime(), in hours
DateGetTime(d) == d.day * 24 + d.hour - d.tz

RECURSIVE TrimStart(_)
TrimStart(s) ==
    IF s # <<>> /\ Head(s) \in Whitespace THEN TrimStart(Tail(s)) ELSE s

RECURSIVE TrimEnd(_)
TrimEnd(s) ==
    IF s # <<>> /\ s[Len(s)] \in Whitespace
    THEN TrimEnd(SubSeq(s, 1, Len(s) - 1)) ELSE s

\* String.prototype.trim
Trim(s) == TrimEnd(TrimStart(s))

normalizeVersion_EveryPrefix(version) ==
    LET RECURSIVE Strip(_)
        Strip(t) == IF t # <<>> /\ Head(t) \in {"v", "V"} THEN Strip(Tail(t)) ELSE t
    IN Strip(Trim(version))

\* version.trim().replace(/^v/i, '')
normalizeVersion(version) ==
    LET t == Trim(version)
    IN IF t # <<>> /\ Head(t) \in {"v", "V"} THEN Tail(t) ELSE t

isVersionOlder_OrEqual(date1, date2) == DateGetTime(date1) <= DateGetTime(date2)

\* new Date(date1).getTime() < new Date(date2).getTime()
isVersionOlder(date1, date2) == DateGetTime(date1) < DateGetTime(date2)

Compare_Ascending(a, b) == DateGetTime(a.published_at) - DateGetTime(b.published_at)

\* The comparator handed to sort: negative when a goes before b.
Compare(a, b) == DateGetTime(b.published_at) - DateGetTime(a.published_at)

\* Array.prototype.sort is stable: x goes behind every element that does not
\* compare after it.
RECURSIVE InsertSorted(_, _)
InsertSorted(x, s) ==
    IF s = <<>> THEN <<x>>
    ELSE IF Compare(Head(s), x) <= 0 THEN <<Head(s)>> \o InsertSorted(x, Tail(s))
    ELSE <<x>> \o s

SortReleases_WithoutDrafts(s) ==
    LET NotDraft(r) == ~r.draft
        RECURSIVE Go(_)
        Go(t) == IF t = <<>> THEN <<>>
                 ELSE InsertSorted(t[Len(t)], Go(SubSeq(t, 1, Len(t) - 1)))
    IN Go(SelectSeq(s, NotDraft))

SortReleases_AsReceived(s) == s

RECURSIVE SortReleases(_)
SortReleases(s) ==
    IF s = <<>> THEN <<>>
    ELSE InsertSorted(s[Len(s)], SortReleases(SubSeq(s, 1, Len(s) - 1)))

\* The Release handed to the caller (name and html_url are copied through
\* and carry no logic; they are left out).
ToRelease(r) ==
    [tagName |-> r.tag_name, prerelease |-> r.prerelease, draft |-> r.draft,
     publishedAt |-> r.published_at]

\* Array.prototype.find, given the elements that satisfy the predicate in
\* list order: the first of them, or undefined.
Find(f) == IF f = <<>> THEN None ELSE Some(Head(f))


(* ------------------------- public operations --------------------------- *)
\* What a call hands back.  `data` is the list the call was served (the
\* response as the source sent it, or the cached list on a cache hit) and
\* `currentRelease` the local of checkVersion; both are kept for the
\* properties only.
NoResult ==
    [op |-> "none", version |-> <<>>, flag |-> FALSE,
     invoked |-> FALSE, ok |-> TRUE, data |-> <<>>, release |-> None,
     updateAvailable |-> FALSE, latestVersion |-> None,
     currentRelease |-> None, message |-> <<>>]

getLatestRelease_WithDrafts(releases, includePrerelease) ==
    LET Valid(release) ==
            IF ~includePrerelease /\ release.prerelease THEN FALSE ELSE TRUE
        validReleases == SelectSeq(releases, Valid)
    IN IF Len(validReleases) = 0 THEN None
       ELSE Some(ToRelease(validReleases[1]))

\* getLatestRelease, after `await this.fetchAllReleases()`
getLatestRelease(releases, includePrerelease) ==
    LET Valid(release) ==
            IF release.draft THEN FALSE
            ELSE IF ~includePrerelease /\ release.prerelease THEN FALSE
            ELSE TRUE
        validReleases == SelectSeq(releases, Valid)
    IN IF Len(validReleases) = 0 THEN None
       ELSE Some(ToRelease(validReleases[1]))

getLatestPrerelease_WithDrafts(releases) ==
    LET IsPre(release) == release.prerelease
        prerelease == Find(SelectSeq(releases, IsPre))
    IN IF prerelease = None THEN None ELSE Some(ToRelease(prerelease[1]))

\* getLatestPrerelease, after `await this.fetchAllReleases()`
getLatestPrerelease(releases) ==
    LET IsPre(release) == release.prerelease /\ ~release.draft
        prerelease == Find(SelectSeq(releases, IsPre))
    IN IF prerelease = None THEN None ELSE Some(ToRelease(prerelease[1]))

MatchesVersion_VerbatimOnly(r, currentVersion) == r.tag_name = currentVersion

\* The predicate of the currentRelease lookup in checkVersion.
MatchesVersion(r, currentVersion) ==
    \/ normalizeVersion(r.tag_name) = normalizeVersion(currentVersion)
    \/ r.tag_name = currentVersion

IsReference_WithDrafts(r, isPrerelease) ==
    IF isPrerelease THEN r.prerelease ELSE ~r.prerelease

IsReference_StableOnly(r, isPrerelease) == ~r.prerelease /\ ~r.draft

\* The predicate of the latestRelease lookup in checkVersion.
IsReference(r, isPrerelease) ==
    IF isPrerelease THEN r.prerelease /\ ~r.draft
    ELSE ~r.prerelease /\ ~r.draft

checkVersion_UnknownIsCurrent(releases, currentVersion, isPrerelease) ==
    IF Len(releases) = 0
    THEN [currentVersion |-> currentVersion,
          updateAvailable |-> FALSE, latestVersion |-> None,
          latestRelease |-> None, currentRelease |-> None]
    ELSE
    LET Matches(r) == MatchesVersion(r, currentVersion)
        currentRelease == Find(SelectSeq(releases, Matches))
        IsLatest(r) == IsReference(r, isPrerelease)
        latestRelease == Find(SelectSeq(releases, IsLatest))
    IN IF latestRelease = None
       THEN [currentVersion |-> currentVersion,
             updateAvailable |-> FALSE, latestVersion |-> None,
             latestRelease |-> None, currentRelease |-> currentRelease]
       ELSE IF currentRelease = None
       THEN [currentVersion |-> currentVersion,
             updateAvailable |-> FALSE,
             latestVersion |-> Some(latestRelease[1].tag_name),
             latestRelease |-> Some(ToRelease(latestRelease[1])),
             currentRelease |-> None]
       ELSE [currentVersion |-> currentVersion,
             updateAvailable |->
                 isVersionOlder(currentRelease[1].published_at,
                                latestRelease[1].published_at),
             latestVersion |-> Some(latestRelease[1].tag_name),
             latestRelease |-> Some(ToRelease(latestRelease[1])),
             currentRelease |-> currentRelease]

\* checkVersion, after `await this.fetchAllReleases()`.  The field
\* currentRelease is the local of that name, None where it is not computed.
checkVersion_EchoesNormalized(releases, currentVersion, isPrerelease) ==
    IF Len(releases) = 0
    THEN [currentVersion |-> normalizeVersion(currentVersion),
          updateAvailable |-> FALSE, latestVersion |-> None,
          latestRelease |-> None, currentRelease |-> None]
    ELSE
    LET Matches(r) == MatchesVersion(r, currentVersion)
        currentRelease == Find(SelectSeq(releases, Matches))
        IsLatest(r) == IsReference(r, isPrerelease)
        latestRelease == Find(SelectSeq(releases, IsLatest))
    IN IF latestRelease = None
       THEN [currentVersion |-> normalizeVersion(currentVersion),
             updateAvailable |-> FALSE, latestVersion |-> None,
             latestRelease |-> None, currentRelease |-> currentRelease]
       ELSE IF currentRelease = None
       THEN [currentVersion |-> normalizeVersion(currentVersion),
             updateAvailable |-> TRUE,
             latestVersion |-> Some(latestRelease[1].tag_name),
             latestRelease |-> Some(ToRelease(latestRelease[1])),
             currentRelease |-> None]
       ELSE [currentVersion |-> normalizeVersion(currentVersion),
             updateAvailable |->
                 isVersionOlder(currentRelease[1].published_at,
                                latestRelease[1].published_at),
             latestVersion |-> Some(latestRelease[1].tag_name),
             latestRelease |-> Some(ToRelease(latestRelease[1])),
             currentRelease |-> currentRelease]

checkVersion(releases, currentVersion, isPrerelease) ==
    IF Len(releases) = 0
    THEN [currentVersion |-> currentVersion,
          updateAvailable |-> FALSE, latestVersion |-> None,
          latestRelease |-> None, currentRelease |-> None]
    ELSE
    LET Matches(r) == MatchesVersion(r, currentVersion)
        currentRelease == Find(SelectSeq(releases, Matches))
        IsLatest(r) == IsReference(r, isPrerelease)
        latestRelease == Find(SelectSeq(releases, IsLatest))
    IN IF latestRelease = None
       THEN [currentVersion |-> currentVersion,
             updateAvailable |-> FALSE, latestVersion |-> None,
             latestRelease |-> None, currentRelease |-> currentRelease]
       ELSE IF currentRelease = None
       THEN [currentVersion |-> currentVersion,
             updateAvailable |-> TRUE,
             latestVersion |-> Some(latestRelease[1].tag_name),
             latestRelease |-> Some(ToRelease(latestRelease[1])),
             currentRelease |-> None]
       ELSE [currentVersion |-> currentVersion,
             updateAvailable |->
                 isVersionOlder(currentRelease[1].published_at,
                                latestRelease[1].published_at),
             latestVersion |-> Some(latestRelease[1].tag_name),
             latestRelease |-> Some(ToRelease(latestRelease[1])),
             currentRelease |-> currentRelease]

ErrorPrefix_Shared(op) == "Failed to fetch releases: "

\* The prefix each public operation puts before the message of a caught error.
ErrorPrefix(op) ==
    CASE op = "getLatestRelease" -> "Failed to fetch releases: "
      [] op = "getLatestPrerelease" -> "Failed to fetch prereleases: "
      [] op = "checkVersion" -> "Failed to check version: "

\* The ways the fetch step fails: a response that is not ok, or a rejected fetch.
Failures == { [status |-> "403", statusText |-> "Forbidden"],
              [status |-> "", statusText |-> "fetch failed"] }

FailureMessage(f) ==
    IF f.status # "" THEN <<"GitHub API error: ", f.status, " ", f.statusText>>
    ELSE <<f.statusText>>

\* The result of a call that was served `releases`: the try block of the
\* three public operations.  `data` is what the source or the cache supplied.
Resolve(call, invoked, data, releases) ==
    LET base == [NoResult EXCEPT !.op = call.op, !.version = call.version,
                                 !.flag = call.flag,
                                 !.invoked = invoked, !.data = data]
    IN IF call.op = "getLatestRelease"
       THEN [base EXCEPT !.release = getLatestRelease(releases, call.flag)]
       ELSE IF call.op = "getLatestPrerelease"
       THEN [base EXCEPT !.release = getLatestPrerelease(releases)]
       ELSE LET r == checkVersion(releases, call.version, call.flag)
            IN [base EXCEPT !.version = r.currentVersion,
                            !.release = r.latestRelease,
                            !.updateAvailable = r.updateAvailable,
                            !.latestVersion = r.latestVersion,
                            !.currentRelease = r.currentRelease]

\* The catch block of the three public operations.
Reject(call, invoked, original) ==
    [NoResult EXCEPT !.op = call.op, !.version = call.version,
                     !.flag = call.flag,
                     !.invoked = invoked, !.ok = FALSE,
                     !.message = <<ErrorPrefix(call.op)>> \o original]

(* ------------------------------- state --------------------------------- *)
VARIABLES
    checkInterval,    \* this.checkInterval
    cacheFilePath,    \* this.cacheFilePath: None or Some(path)
    cachedReleases,   \* this.cachedReleases
    lastFetchTime,    \* this.lastFetchTime
    file,             \* the content of the cache file
    clock,            \* Date.now()
    calls,            \* the resolving calls awaiting their response, oldest first
    fetchesLeft,      \* requests that may still be sent to the source
    stamp,            \* timestamp of the last processed fetch, None once cleared
    result,           \* outcome of the call that completed last
    cleared           \* history: Some(TRUE) from the return of clearCache to
                      \* the start of the next resolving call, Some(FALSE)
                      \* otherwise; None where no history is kept

vars == <<checkInterval, cacheFilePath, cachedReleases, lastFetchTime, file,
          clock, calls, fetchesLeft, stamp, result, cleared>>

\* The history of clearCache after a step that is (or is not) its return.
Cleared(returned) == IF cleared = None THEN None ELSE Some(returned)

\* The calls in flight without the i-th.
Remove(s, i) == SubSeq(s, 1, i - 1) \o SubSeq(s, i + 1, Len(s))

\* The contents of the cache file.
Missing == [k |-> "missing", releases |-> Undefined, lastFetchTime |-> NoNum]
Garbage == [k |-> "garbage", releases |-> Undefined, lastFetchTime |-> NoNum]
Json(releases, time) == [k |-> "json", releases |-> releases, lastFetchTime |-> time]

\* Files a constructor may find: none, one that cannot be read or parsed, the
\* entry written by clearCache, entries written after a fetch (one of them
\* stamped by a clock that ran ahead), and JSON objects lacking fields.
InitialFiles ==
    { Missing, Garbage,
      Json(Arr(<<>>), Num(0)),
      Json(Arr(SortReleases(FeedA)), Num(Epoch - 1)),
      Json(Arr(SortReleases(FeedB)), Num(Epoch + 1)),
      Json(Undefined, Num(Epoch - 1)),
      Json(Undefined, NoNum) }

loadCacheFromDisk_NoFallback(path, f) ==
    IF path = None THEN <<Null, Num(0)>>
    ELSE IF f.k = "missing" THEN <<Null, Num(0)>>
    ELSE IF f.k = "garbage" THEN <<Undefined, NoNum>>
    ELSE <<f.releases, f.lastFetchTime>>

loadCacheFromDisk_ListOnly(path, f) ==
    IF path = None THEN <<Null, Num(0)>>
    ELSE IF f.k = "missing" THEN <<Null, Num(0)>>
    ELSE IF f.k = "garbage" THEN <<Null, Num(0)>>
    ELSE <<f.releases, Num(0)>>

\* loadCacheFromDisk: the pair (cachedReleases, lastFetchTime) it leaves.
loadCacheFromDisk(path, f) ==
    IF path = None THEN <<Null, Num(0)>>
    ELSE IF f.k = "missing" THEN <<Null, Num(0)>>
    ELSE IF f.k = "garbage" THEN <<Null, Num(0)>>
    ELSE <<f.releases, f.lastFetchTime>>

saveCacheToDisk_Unlink(path, releases, time, old, written) ==
    IF path = None THEN old
    ELSE IF ~written THEN old
    ELSE IF releases.k = "null" THEN Missing
    ELSE Json(releases, time)

\* saveCacheToDisk: the file it leaves; `written` is whether writeFileSync
\* succeeded (a failure is swallowed).
saveCacheToDisk(path, releases, time, old, written) ==
    IF path = None THEN old
    ELSE IF ~written THEN old
    ELSE IF releases.k = "null" THEN Json(Arr(<<>>), Num(0))
    ELSE Json(releases, time)

IsFresh_Inclusive(now) ==
    /\ cachedReleases.k # "null"
    /\ checkInterval > 0
    /\ lastFetchTime.k = "number"
    /\ (now - lastFetchTime.n) <= checkInterval

IsFresh_AnyInterval(now) ==
    /\ cachedReleases.k # "null"
    /\ lastFetchTime.k = "number"
    /\ (now - lastFetchTime.n) < checkInterval

\* The freshness test at the head of fetchAllReleases.
IsFresh(now) ==
    /\ cachedReleases.k # "null"
    /\ checkInterval > 0
    /\ lastFetchTime.k = "number"
    /\ (now - lastFetchTime.n) < checkInterval

(* ------------------------------ actions -------------------------------- *)
\* The configuration and loadCacheFromDisk of the constructor.
Construct(interval, path, f) ==
    /\ checkInterval = interval
    /\ cacheFilePath = path
    /\ file = f
    /\ cachedReleases = loadCacheFromDisk(path, f)[1]
    /\ lastFetchTime = loadCacheFromDisk(path, f)[2]
    /\ clock = Epoch
    /\ calls = <<>>
    /\ stamp = None
    /\ result = NoResult

Init ==
    /\ \E interval \in CheckIntervals :
         \/ Construct(interval, None, Missing)
         \/ \E f \in InitialFiles : Construct(interval, Some("cache.json"), f)
    /\ fetchesLeft = MaxFetches
    /\ cleared = None

\* Time passes.
Tick ==
    /\ clock < Epoch + MaxTick
    /\ clock' = clock + 1
    /\ UNCHANGED <<checkInterval, cacheFilePath, cachedReleases, lastFetchTime,
                   file, calls, fetchesLeft, stamp, result, cleared>>

\* A public operation up to its first suspension: fetchAllReleases reads the
\* clock and either serves the cached list, on which the operation completes,
\* or sends the request.
StartCall_Deduplicated(op, version, flag) ==
    LET call == [op |-> op, version |-> version, flag |-> flag, now |-> clock]
    IN
    /\ IF IsFresh(clock)
       THEN /\ result' = IF cachedReleases.k = "array"
                         THEN Resolve(call, FALSE, cachedReleases.v, cachedReleases.v)
                         ELSE Reject(call, FALSE, <<"TypeError">>)
            /\ UNCHANGED <<calls, fetchesLeft>>
       ELSE IF calls # <<>>
       THEN /\ calls' = [calls EXCEPT ![Len(calls)] = call]
            /\ UNCHANGED <<fetchesLeft, result>>
       ELSE /\ fetchesLeft > 0
            /\ Len(calls) < MaxCalls
            /\ fetchesLeft' = fetchesLeft - 1
            /\ calls' = Append(calls, call)
            /\ UNCHANGED result
    /\ cleared' = Cleared(FALSE)
    /\ UNCHANGED <<checkInterval, cacheFilePath, cachedReleases, lastFetchTime,
                   file, clock, stamp>>

StartCall(op, version, flag) ==
    LET call == [op |-> op, version |-> version, flag |-> flag, now |-> clock]
    IN
    /\ IF IsFresh(clock)
       THEN /\ result' = IF cachedReleases.k = "array"
                         THEN Resolve(call, FALSE, cachedReleases.v, cachedReleases.v)
                         ELSE Reject(call, FALSE, <<"TypeError">>)
            /\ UNCHANGED <<calls, fetchesLeft>>
       ELSE /\ fetchesLeft > 0
            /\ Len(calls) < MaxCalls
            /\ fetchesLeft' = fetchesLeft - 1
            /\ calls' = Append(calls, call)
            /\ UNCHANGED result
    /\ cleared' = Cleared(FALSE)
    /\ UNCHANGED <<checkInterval, cacheFilePath, cachedReleases, lastFetchTime,
                   file, clock, stamp>>

CompleteFetch_ArrivalTime(i, response, written) ==
    LET call == calls[i]
        releases == SortReleases(response)
    IN
    /\ cachedReleases' = Arr(releases)
    /\ lastFetchTime' = Num(clock)
    /\ file' = saveCacheToDisk(cacheFilePath, cachedReleases', lastFetchTime',
                               file, written)
    /\ stamp' = Some(call.now)
    /\ result' = Resolve(call, TRUE, response, releases)
    /\ calls' = Remove(calls, i)
    /\ UNCHANGED <<checkInterval, cacheFilePath, clock, fetchesLeft, cleared>>

CompleteFetch_KeepsNewerTime(i, response, written) ==
    LET call == calls[i]
        releases == SortReleases(response)
    IN
    /\ cachedReleases' = Arr(releases)
    /\ lastFetchTime' = IF lastFetchTime.k = "number" /\ lastFetchTime.n > call.now
                        THEN lastFetchTime ELSE Num(call.now)
    /\ file' = saveCacheToDisk(cacheFilePath, cachedReleases', lastFetchTime',
                               file, written)
    /\ stamp' = Some(call.now)
    /\ result' = Resolve(call, TRUE, response, releases)
    /\ calls' = Remove(calls, i)
    /\ UNCHANGED <<checkInterval, cacheFilePath, clock, fetchesLeft, cleared>>

CompleteFetch_CachesAsReceived(i, response, written) ==
    LET call == calls[i]
        releases == SortReleases(response)
    IN
    /\ cachedReleases' = Arr(response)
    /\ lastFetchTime' = Num(call.now)
    /\ file' = saveCacheToDisk(cacheFilePath, cachedReleases', lastFetchTime',
                               file, written)
    /\ stamp' = Some(call.now)
    /\ result' = Resolve(call, TRUE, response, releases)
    /\ calls' = Remove(calls, i)
    /\ UNCHANGED <<checkInterval, cacheFilePath, clock, fetchesLeft, cleared>>

CompleteFetch_WriteFailureRaised(i, response, written) ==
    LET call == calls[i]
        releases == SortReleases(response)
    IN
    /\ cachedReleases' = Arr(releases)
    /\ lastFetchTime' = Num(call.now)
    /\ file' = saveCacheToDisk(cacheFilePath, cachedReleases', lastFetchTime',
                               file, written)
    /\ stamp' = Some(call.now)
    /\ result' = IF written THEN Resolve(call, TRUE, response, releases)
                 ELSE Reject(call, TRUE, <<"EACCES">>)
    /\ calls' = Remove(calls, i)
    /\ UNCHANGED <<checkInterval, cacheFilePath, clock, fetchesLeft, cleared>>

\* The response arrives with response.ok and carries the list `response`,
\* whatever the source holds by then: the rest of fetchAllReleases (sort,
\* cache, save) and of the public operation.
CompleteFetch(i, response, written) ==
    LET call == calls[i]
        releases == SortReleases(response)
    IN
    /\ cachedReleases' = Arr(releases)
    /\ lastFetchTime' = Num(call.now)
    /\ file' = saveCacheToDisk(cacheFilePath, cachedReleases', lastFetchTime',
                               file, written)
    /\ stamp' = Some(call.now)
    /\ result' = Resolve(call, TRUE, response, releases)
    /\ calls' = Remove(calls, i)
    /\ UNCHANGED <<checkInterval, cacheFilePath, clock, fetchesLeft, cleared>>

\* The response is not ok, or fetch rejects: the operation rejects.
FailFetch_RecordsAttempt(i, f) ==
    LET call == calls[i]
    IN
    /\ result' = Reject(call, TRUE, FailureMessage(f))
    /\ calls' = Remove(calls, i)
    /\ lastFetchTime' = Num(call.now)
    /\ UNCHANGED <<checkInterval, cacheFilePath, cachedReleases,
                   file, clock, fetchesLeft, stamp, cleared>>

FailFetch(i, f) ==
    LET call == calls[i]
    IN
    /\ result' = Reject(call, TRUE, FailureMessage(f))
    /\ calls' = Remove(calls, i)
    /\ UNCHANGED <<checkInterval, cacheFilePath, cachedReleases, lastFetchTime,
                   file, clock, fetchesLeft, stamp, cleared>>

\* clearCache
ClearCache(written) ==
    /\ cachedReleases' = Null
    /\ lastFetchTime' = Num(0)
    /\ file' = saveCacheToDisk(cacheFilePath, cachedReleases', lastFetchTime',
                               file, written)
    /\ stamp' = None
    /\ cleared' = Cleared(TRUE)
    /\ UNCHANGED <<checkInterval, cacheFilePath, clock, calls, fetchesLeft,
                   result>>

\* A second instance is constructed on the same cache file once the first
\* has no call in flight: the constructor, with loadCacheFromDisk, again.
\* The result of the first instance's last call is kept for comparison.
NewInstance(interval) ==
    /\ cacheFilePath # None
    /\ calls = <<>>
    /\ checkInterval' = interval
    /\ cachedReleases' = loadCacheFromDisk(cacheFilePath, file)[1]
    /\ lastFetchTime' = loadCacheFromDisk(cacheFilePath, file)[2]
    /\ stamp' = None
    /\ cleared' = Cleared(FALSE)
    /\ UNCHANGED <<cacheFilePath, file, clock, calls, fetchesLeft, result>>

\* The arguments of a call: the operations that take no version get <<>>.
CallArgs ==
    { <<"getLatestRelease", <<>>, b>> : b \in BOOLEAN }
    \cup { <<"getLatestPrerelease", <<>>, FALSE>> }
    \cup { <<"checkVersion", v, b>> : v \in Versions, b \in BOOLEAN }

\* The calls made in the cache-protocol specification: one of each operation.
ProtocolArgs ==
    { <<"getLatestRelease", <<>>, FALSE>>,
      <<"getLatestPrerelease", <<>>, FALSE>>,
      <<"checkVersion", <<"v", "1">>, FALSE>> }

Start == \E a \in ProtocolArgs : StartCall(a[1], a[2], a[3])
StartAny == \E a \in CallArgs : StartCall(a[1], a[2], a[3])
\* writeFileSync is reached, and may fail, only when a path is configured.
Writes == IF cacheFilePath = None THEN {TRUE} ELSE BOOLEAN

Complete ==
    \E i \in DOMAIN calls : \E response \in Feeds : \E written \in Writes :
        CompleteFetch(i, response, written)
CompleteAny ==
    \E i \in DOMAIN calls : \E response \in ReleaseLists : \E written \in Writes :
        CompleteFetch(i, response, written)
Fail == \E i \in DOMAIN calls : \E f \in Failures : FailFetch(i, f)
Clear == \E written \in Writes : ClearCache(written)

Next == Tick \/ Start \/ Complete \/ Fail \/ Clear

Spec == Init /\ [][Next]_vars

\* The resolver and the comparator over every call and every release list of
\* the bounded universe: one call with caching switched off, as in the unit
\* tests, answered by a response or by a failure.
InitResolver ==
    /\ Construct(0, None, Missing)
    /\ fetchesLeft = 1
    /\ cleared = None

NextResolver == StartAny \/ CompleteAny \/ Fail

SpecResolver == InitResolver /\ [][NextResolver]_vars

\* The instance with a cache file, as in the disk caching tests: one
\* operation, writes that may fail, clearCache, a second instance on the same
\* file, and the history of clearCache.
InitDisk ==
    /\ \E interval \in CheckIntervals : \E f \in InitialFiles :
         Construct(interval, Some("cache.json"), f)
    /\ fetchesLeft = MaxFetches
    /\ cleared = Some(FALSE)

StartLatest == StartCall("getLatestRelease", <<>>, FALSE)
Reconstruct == \E interval \in CheckIntervals : NewInstance(interval)

NextDisk == Tick \/ StartLatest \/ Complete \/ Fail \/ Clear \/ Reconstruct

SpecDisk == InitDisk /\ [][NextDisk]_vars

\* Repeated version checks on one instance: checkVersion with two argument
\* pairs, against a source whose list changes from response to response.
CheckArgs == { <<"checkVersion", <<"v", "1">>, FALSE>>,
               <<"checkVersion", <<"v", "3">>, TRUE>> }
StartCheck == \E a \in CheckArgs : StartCall(a[1], a[2], a[3])

NextCheck == Tick \/ StartCheck \/ Complete \/ Fail \/ Clear

SpecCheck == Init /\ [][NextCheck]_vars


(* ----------------------------- properties ------------------------------ *)
\* The two ways a resolving call starts: it sends a request to the source, or
\* it is served from the cache (every other step that sets the result is the
\* completion of a request).
RequestSent == Len(calls') = Len(calls) + 1
\* The step processes the response, or the failure, of the pending request i.
Processed(i) == calls' = Remove(calls, i) /\ result'.invoked /\ result'.ok
Failed(i) == calls' = Remove(calls, i) /\ result'.invoked /\ ~result'.ok
ServedFromCache == result' # result /\ ~result'.invoked

Time(r) == DateGetTime(r.published_at)

\* C1: with checkInterval = W > 0, once a fetch stamped t has been processed
\* and the cache was not cleared since, a resolving call that starts at `now`
\* does not invoke the source when now - t < W, however many cache hits came
\* before it, and invokes it when now - t >= W (exactly W included).
C1_FreshWithinWindow ==
    [][ (checkInterval > 0 /\ stamp # None)
        => /\ RequestSent => clock - stamp[1] >= checkInterval
           /\ ServedFromCache => clock - stamp[1] < checkInterval ]_vars

\* A cache hit inside the window, and after it a call that started exactly W
\* after the fetch and is awaiting the source.
C1_Witness ==
    /\ checkInterval > 0
    /\ stamp # None
    /\ result.op # "none" /\ ~result.invoked
    /\ \E i \in DOMAIN calls : calls[i].now - stamp[1] = checkInterval

\* C2: with checkInterval <= 0 every resolving call invokes the source,
\* whatever the clock and whatever the memory or the disk cache holds: no
\* call is served from the cache.
C2_NoCachingWhenDisabled ==
    [][ checkInterval <= 0 => ~ServedFromCache ]_vars

\* Caching is off, the cache holds a list stamped later than the clock (loaded
\* from disk), and the call went to the source all the same.
C2_Witness ==
    /\ checkInterval <= 0
    /\ cachedReleases.k = "array"
    /\ lastFetchTime.k = "number"
    /\ \E i \in DOMAIN calls : calls[i].now - lastFetchTime.n < checkInterval

\* The entries of a list that getLatestRelease may return.
Qualifying(data, includePrerelease) ==
    { i \in DOMAIN data :
        ~data[i].draft /\ (includePrerelease \/ ~data[i].prerelease) }

\* The release handed back is the entry i of the list.
Returns(release, data, i) ==
    /\ release # None
    /\ release[1].tagName = data[i].tag_name
    /\ release[1].publishedAt = data[i].published_at
    /\ release[1].prerelease = data[i].prerelease
    /\ release[1].draft = data[i].draft

\* i is published no earlier than every entry of Q.
Newest(data, Q, i) == i \in Q /\ \A j \in Q : Time(data[j]) <= Time(data[i])

\* C3: for every list the source returns, in any order, getLatestRelease
\* returns an entry with the greatest publish time among the entries that are
\* not drafts and (unless includePrerelease) not prereleases, and null exactly
\* when there is no such entry.
C3_LatestReleaseIsNewestQualifying ==
    (result.op = "getLatestRelease" /\ result.ok /\ result.invoked)
    => LET Q == Qualifying(result.data, result.flag)
       IN IF Q = {} THEN result.release = None
          ELSE \E i \in Q : /\ Newest(result.data, Q, i)
                            /\ Returns(result.release, result.data, i)

\* The source sent the newest qualifying entry behind an older one.
C3_Witness ==
    /\ result.op = "getLatestRelease" /\ result.invoked
    /\ Len(result.data) = 2
    /\ Qualifying(result.data, result.flag) = {1, 2}
    /\ Time(result.data[1]) < Time(result.data[2])
    /\ Returns(result.release, result.data, 2)

\* The non-draft prereleases of a list.
Prereleases(data) ==
    { i \in DOMAIN data : data[i].prerelease /\ ~data[i].draft }

\* C4: getLatestPrerelease returns an entry with the greatest publish time
\* among the prereleases that are not drafts, null exactly when there is none,
\* and so never a draft and never a stable release.
C4_LatestPrereleaseIsNewestPrerelease ==
    (result.op = "getLatestPrerelease" /\ result.ok)
    => LET Q == Prereleases(result.data)
       IN /\ IF Q = {} THEN result.release = None
             ELSE \E i \in Q : /\ Newest(result.data, Q, i)
                               /\ Returns(result.release, result.data, i)
          /\ result.release # None
             => result.release[1].prerelease /\ ~result.release[1].draft

\* A draft prerelease is the newest entry and an older prerelease is returned.
C4_Witness ==
    /\ result.op = "getLatestPrerelease"
    /\ Len(result.data) = 2
    /\ result.data[2].prerelease /\ result.data[2].draft
    /\ Time(result.data[1]) < Time(result.data[2])
    /\ Returns(result.release, result.data, 1)

\* C5: no operation hands out a draft: the release of getLatestRelease and
\* getLatestPrerelease and the latestRelease of checkVersion have draft = false.
C5_NoDraftExposed ==
    result.release # None => ~result.release[1].draft

\* checkVersion was served from the cache, whose newest entry is a draft, and
\* reports an older release.
C5_Witness ==
    /\ result.op = "checkVersion" /\ ~result.invoked
    /\ result.release # None
    /\ \E i \in DOMAIN result.data :
         /\ result.data[i].draft
         /\ Time(result.data[i]) > DateGetTime(result.release[1].publishedAt)

\* The entries whose tag matches the version, verbatim or after normalization.
Matching(data, version) ==
    { i \in DOMAIN data :
        \/ data[i].tag_name = version
        \/ normalizeVersion(data[i].tag_name) = normalizeVersion(version) }

\* The entries of the stability class checkVersion compares with.
References(data, isPrerelease) ==
    { i \in DOMAIN data : ~data[i].draft /\ data[i].prerelease = isPrerelease }

\* The release reported by checkVersion is a newest entry of its class.
ReportsReference(r) ==
    \E i \in References(r.data, r.flag) :
        /\ Newest(r.data, References(r.data, r.flag), i)
        /\ Returns(r.release, r.data, i)
        /\ r.latestVersion = Some(r.data[i].tag_name)

\* C6: when the version is found and a reference release exists,
\* updateAvailable holds exactly when the matched release was published
\* strictly before the reference; equal instants and a newer match give false;
\* latestVersion is the tag of the reference.
C6_UpdateIffStrictlyOlder ==
    (/\ result.op = "checkVersion" /\ result.ok
     /\ Matching(result.data, result.version) # {}
     /\ References(result.data, result.flag) # {})
    => /\ result.currentRelease # None
       /\ ReportsReference(result)
       /\ result.updateAvailable
          <=> Time(result.currentRelease[1]) < DateGetTime(result.release[1].publishedAt)

\* The matched release and the reference are different releases published at
\* the same instant, written with different UTC offsets: no update.
C6_Witness ==
    /\ result.op = "checkVersion"
    /\ result.currentRelease # None /\ result.release # None
    /\ result.currentRelease[1].tag_name # result.release[1].tagName
    /\ result.currentRelease[1].published_at # result.release[1].publishedAt
    /\ Time(result.currentRelease[1]) = DateGetTime(result.release[1].publishedAt)
    /\ ~result.updateAvailable

C8_UnknownVersionNoUpdate ==
    (/\ result.op = "checkVersion" /\ result.ok /\ ~result.flag
     /\ Matching(result.data, result.version) = {}
     /\ References(result.data, FALSE) # {})
    => /\ ~result.updateAvailable
       /\ ReportsReference(result)

\* C9: checkVersion returns {updateAvailable: false, latestVersion: null,
\* latestRelease: null} exactly when the list has no entry of the requested
\* class that is not a draft, the empty list included, whether or not the
\* version matches an entry.
C9_NullResultIffNoReference ==
    (result.op = "checkVersion" /\ result.ok)
    => ((/\ ~result.updateAvailable
         /\ result.latestVersion = None
         /\ result.release = None)
        <=> References(result.data, result.flag) = {})

\* The version matches an entry, the only entry of the requested class is a
\* draft, and the result is the null triple.
C9_Witness ==
    /\ result.op = "checkVersion"
    /\ Matching(result.data, result.version) # {}
    /\ \E i \in DOMAIN result.data :
         result.data[i].draft /\ result.data[i].prerelease = result.flag
    /\ References(result.data, result.flag) = {}
    /\ ~result.updateAvailable
    /\ result.latestVersion = None /\ result.release = None

\* The entries matching verbatim, and those matching only after normalization.
Verbatim(data, version) == { i \in DOMAIN data : data[i].tag_name = version }
NormalizedOnly(data, version) == Matching(data, version) \ Verbatim(data, version)

\* C10 as claimed: when one release matches the version verbatim and another
\* only after normalization, the release whose publish time is compared with
\* the reference is a verbatim one, wherever the two stand in the list.
C10_VerbatimMatchWins ==
    (/\ result.op = "checkVersion" /\ result.ok
     /\ Verbatim(result.data, result.version) # {}
     /\ NormalizedOnly(result.data, result.version) # {}
     /\ References(result.data, result.flag) # {})
    => \E i \in Verbatim(result.data, result.version) :
          result.updateAvailable
          <=> Time(result.data[i]) < DateGetTime(result.release[1].publishedAt)

\* C10 amended: in that case the release used as the current release is the
\* first matching entry, of either kind, of the list sorted by publish time:
\* the most recently published matching entry, and among several published at
\* that instant the one the source listed first.
C10_FirstMatchInSortedOrderWins ==
    (/\ result.op = "checkVersion" /\ result.ok /\ result.invoked
     /\ Verbatim(result.data, result.version) # {}
     /\ NormalizedOnly(result.data, result.version) # {})
    => LET M == Matching(result.data, result.version)
           top == { i \in M : Newest(result.data, M, i) }
           first == CHOOSE i \in top : \A j \in top : i <= j
       IN /\ result.currentRelease = Some(result.data[first])
          /\ References(result.data, result.flag) # {}
             => (result.updateAvailable
                 <=> Time(result.data[first]) < DateGetTime(result.release[1].publishedAt))

\* The normalized-only match is newer than the verbatim one and is the one
\* compared: no update is reported although the verbatim release is older than
\* the reference.
C10_Witness ==
    /\ result.op = "checkVersion"
    /\ Len(result.data) = 2
    /\ Verbatim(result.data, result.version) = {1}
    /\ NormalizedOnly(result.data, result.version) = {2}
    /\ result.currentRelease = Some(result.data[2])
    /\ result.release # None
    /\ Time(result.data[1]) < DateGetTime(result.release[1].publishedAt)
    /\ ~result.updateAvailable

\* The normal form the contract gives for the version strings of the model:
\* surrounding whitespace goes, then one leading v or V, and no more.
NormalForm(version) ==
    CASE version = <<"v", "1">> -> <<"1">>
      [] version = <<"1">> -> <<"1">>
      [] version = <<" ", "V", "1", " ">> -> <<"1">>
      [] version = <<"v", "v", "1">> -> <<"v", "1">>
      [] version = <<"v", "3">> -> <<"3">>

\* C11: normalization trims surrounding whitespace and then strips exactly
\* one leading v or V ("v1" and "1" and " V1 " all give "1", "vv1" gives
\* "v1"); and checkVersion of any other version with the same normal form,
\* over the same list and with the same flag, gives the same updateAvailable,
\* latestVersion and latestRelease as the call that was made.
C11_SameNormalFormSameVerdict ==
    (result.op = "checkVersion" /\ result.ok /\ result.invoked)
    => /\ normalizeVersion(result.version) = NormalForm(result.version)
       /\ \A b \in Versions :
            NormalForm(b) = NormalForm(result.version)
            => LET other == checkVersion(SortReleases(result.data), b, result.flag)
               IN /\ other.updateAvailable = result.updateAvailable
                  /\ other.latestVersion = result.latestVersion
                  /\ other.latestRelease = result.release

\* " V1 " was checked against a list that files the release under "v1"; the
\* release was found and is older than the reference.
C11_Witness ==
    /\ result.op = "checkVersion" /\ result.invoked
    /\ result.version = <<" ", "V", "1", " ">>
    /\ result.currentRelease # None
    /\ result.currentRelease[1].tag_name = <<"v", "1">>
    /\ result.release # None
    /\ result.updateAvailable

\* C12: when getLatestRelease() returns R, checkVersion(R.tagName) over the
\* same data reports no update and latestVersion = R.tagName; when
\* getLatestPrerelease() returns P, checkVersion(P.tagName, true) reports no
\* update, latestVersion = P.tagName and a latestRelease that is a
\* prerelease; whatever other entries carry a tag with the same normal form.
C12_LatestIsUpToDate ==
    (/\ result.ok /\ result.invoked /\ result.release # None
     /\ \/ result.op = "getLatestRelease" /\ ~result.flag
        \/ result.op = "getLatestPrerelease")
    => LET isPrerelease == result.op = "getLatestPrerelease"
           tagName == result.release[1].tagName
           check == checkVersion(SortReleases(result.data), tagName, isPrerelease)
       IN /\ ~check.updateAvailable
          /\ check.latestVersion = Some(tagName)
          /\ check.latestRelease # None
          /\ isPrerelease => check.latestRelease[1].prerelease

\* getLatestRelease() returned R while a newer entry that is a draft or a
\* prerelease carries a tag with the same normal form.
C12_Witness ==
    /\ result.op = "getLatestRelease" /\ ~result.flag /\ result.invoked
    /\ result.release # None
    /\ \E i \in DOMAIN result.data :
         /\ result.data[i].draft \/ result.data[i].prerelease
         /\ result.data[i].tag_name # result.release[1].tagName
         /\ normalizeVersion(result.data[i].tag_name)
              = normalizeVersion(result.release[1].tagName)
         /\ Time(result.data[i]) > DateGetTime(result.release[1].publishedAt)

\* C13: the reference release of checkVersion depends on the isPrerelease
\* flag alone: with the flag it is the release getLatestPrerelease() returns
\* over the same data, without it the release getLatestRelease(false)
\* returns (none where that returns null), whatever the class of the release
\* the caller's version matches.
C13_ReferenceChosenByFlag ==
    (result.op = "checkVersion" /\ result.ok /\ result.invoked)
    => LET releases == SortReleases(result.data)
           reference == IF result.flag THEN getLatestPrerelease(releases)
                        ELSE getLatestRelease(releases, FALSE)
       IN /\ result.release = reference
          /\ result.latestVersion =
                IF reference = None THEN None ELSE Some(reference[1].tagName)

\* A stable version was checked with isPrerelease = true against a list whose
\* stable release is newer than its prerelease: the prerelease is the
\* reference and no update is reported.
C13_Witness ==
    /\ result.op = "checkVersion" /\ result.flag /\ result.invoked
    /\ result.currentRelease # None
    /\ ~result.currentRelease[1].prerelease /\ ~result.currentRelease[1].draft
    /\ result.release # None /\ result.release[1].prerelease
    /\ Time(result.currentRelease[1]) > DateGetTime(result.release[1].publishedAt)
    /\ ~result.updateAvailable

\* C14: after clearCache() returns, the next resolving call made on the
\* instance invokes the source, for every checkInterval and every prior cache
\* state: a call that starts while cleared holds sends a request.
C14_NextCallAfterClearFetches ==
    [][ (cleared = Some(TRUE) /\ StartLatest) => RequestSent ]_vars

\* The entry saveCacheToDisk writes for a cleared cache.
EmptyEntry == Json(Arr(<<>>), Num(0))

Absent == loadCacheFromDisk(None, Missing)

\* C16: clearCache() puts the in-memory cache into an explicit
\* empty-but-present state, releases = [] and fetchedAt = 0, which is never
\* the same value as the absent state of an instance that never fetched and
\* loaded nothing from disk.
C16_ClearedIsNotAbsent ==
    [][ Clear => /\ cachedReleases' = Arr(<<>>)
                 /\ lastFetchTime' = Num(0)
                 /\ <<cachedReleases', lastFetchTime'>> # Absent ]_vars

\* C17: with a cache file path configured, clearCache() removes the cache
\* file from disk: after it returns the file no longer exists.
C17_ClearRemovesFile ==
    [][ (cacheFilePath # None /\ Clear) => file' = Missing ]_vars

\* The two lists hold the same entries, each as often as the other.
Count(s, x) == Cardinality({ i \in DOMAIN s : s[i] = x })
IsPermutation(s, t) ==
    /\ Len(s) = Len(t)
    /\ \A i \in DOMAIN s : Count(s, s[i]) = Count(t, s[i])

\* The file holds the entry that the fetch behind the last result wrote.
FileHoldsLastFetch ==
    /\ result.op # "none" /\ result.invoked /\ result.ok
    /\ file.k = "json"
    /\ file.releases = Arr(SortReleases(result.data))
    /\ file.lastFetchTime.k = "number"

\* An instance constructed on that file, before its first resolving call:
\* it has processed no fetch, was not cleared, and nothing has completed
\* since the fetch of the first instance.
SecondInstanceIdle ==
    /\ FileHoldsLastFetch
    /\ stamp = None /\ cleared = Some(FALSE) /\ calls = <<>>

\* C18: when a fetch completes and the write succeeds, the file holds every
\* release the source returned, drafts and prereleases included, and a
\* positive lastFetchTime; a second instance constructed afterwards on the
\* same path with checkInterval W > 0, whose first resolving call starts less
\* than W after that fetch, is answered without a request to the source and
\* with the same release as the first instance.
C18_PersistenceRoundTrip ==
    [][ /\ \A i \in DOMAIN calls : \A response \in Feeds :
             CompleteFetch(i, response, TRUE)
             => /\ file'.k = "json"
                /\ file'.releases.k = "array"
                /\ IsPermutation(file'.releases.v, response)
                /\ file'.lastFetchTime.k = "number"
                /\ file'.lastFetchTime.n > 0
        /\ (/\ SecondInstanceIdle
            /\ checkInterval > 0
            /\ clock - file.lastFetchTime.n < checkInterval
            /\ StartLatest)
           => /\ ~RequestSent
              /\ result'.ok /\ ~result'.invoked
              /\ result'.release = result.release ]_vars

\* The second instance answered from a file that only a fetch of the first
\* instance can have written (the files found at construction are stamped
\* otherwise), without having processed a fetch itself.
C18_Witness ==
    /\ file = Json(Arr(SortReleases(FeedA)), Num(Epoch))
    /\ stamp = None /\ cleared = Some(FALSE)
    /\ cachedReleases = file.releases
    /\ result.op = "getLatestRelease" /\ result.ok /\ ~result.invoked
    /\ result.data = file.releases.v
    /\ result.release # None

\* The stable prefix of each operation's error, as the contract gives it.
StablePrefix(op) ==
    IF op = "getLatestRelease" THEN "Failed to fetch releases: "
    ELSE IF op = "getLatestPrerelease" THEN "Failed to fetch prereleases: "
    ELSE "Failed to check version: "

\* The message is the prefix followed by the original message, and for a
\* response that is not ok the original carries the status code and text.
CarriesOriginal(message, op, f) ==
    /\ Len(message) >= 2
    /\ message[1] = StablePrefix(op)
    /\ IF f.status = ""
       THEN message = <<StablePrefix(op), f.statusText>>
       ELSE \E j, k \in 2..Len(message) :
               j < k /\ message[j] = f.status /\ message[k] = f.statusText

\* C19: every failure of the fetch step, a response that is not ok or a
\* transport error, makes the public operation fail with one error whose
\* message is the operation's stable prefix followed by the original message
\* (with status code and status text for a response that is not ok), and the
\* operation returns no result value.
C19_FetchFailureIsPrefixedError ==
    [][ \A i \in DOMAIN calls : \A f \in Failures :
          FailFetch(i, f)
          => /\ ~result'.ok
             /\ result'.op = calls[i].op
             /\ CarriesOriginal(result'.message, calls[i].op, f)
             /\ result'.release = None
             /\ result'.latestVersion = None
             /\ result'.currentRelease = None
             /\ ~result'.updateAvailable ]_vars

\* getLatestPrerelease met a 403 response.
C19_Witness ==
    /\ result.op = "getLatestPrerelease" /\ result.invoked /\ ~result.ok
    /\ result.message = <<"Failed to fetch prereleases: ",
                          "GitHub API error: ", "403", " ", "Forbidden">>
    /\ result.release = None

\* C20: a failed write of the cache file never reaches the caller.  When the
\* write fails in the save after a fetch, the call completes normally with
\* the result resolved from the response, and the in-memory cache holds the
\* sorted response and the start time, as with a working disk; when it fails
\* in clearCache(), the in-memory cache is cleared all the same and no call's
\* outcome changes.
C20_WriteFailureIsSwallowed ==
    [][ /\ \A i \in DOMAIN calls : \A response \in Feeds :
             CompleteFetch(i, response, FALSE)
             => /\ result'.ok /\ result'.invoked
                /\ result' = Resolve(calls[i], TRUE, response, SortReleases(response))
                /\ cachedReleases' = Arr(SortReleases(response))
                /\ lastFetchTime' = Num(calls[i].now)
        /\ ClearCache(FALSE)
           => /\ cachedReleases' = Null
              /\ lastFetchTime' = Num(0)
              /\ result' = result ]_vars

\* A fetch completed with a result while its write failed: the memory holds
\* the fetched pair and the file does not.
C20_Witness ==
    /\ cacheFilePath # None
    /\ stamp # None
    /\ result.invoked /\ result.ok /\ result.release # None
    /\ cachedReleases = Arr(SortReleases(result.data))
    /\ lastFetchTime = Num(stamp[1])
    /\ file # Json(cachedReleases, lastFetchTime)

\* The file is missing, or cannot be read or parsed (not JSON, truncated).
Unreadable == file.k \in {"missing", "garbage"}

\* The instance has processed no response and was not cleared since it was
\* constructed or since its last call started.
NothingProcessed == stamp = None /\ cleared = Some(FALSE)

\* C21: construction completes for every state of the cache file, and over a
\* file that is missing or cannot be read or parsed the instance starts in
\* the absent state (no releases, fetch timestamp 0), so that its first
\* resolving call invokes the source.
C21_ConstructionFallsBackToAbsent ==
    /\ [](Unreadable /\ NothingProcessed
          => <<cachedReleases, lastFetchTime>> = Absent)
    /\ [][ /\ calls = <<>> => \E interval \in CheckIntervals :
                                  ENABLED NewInstance(interval)
           /\ (Unreadable /\ Reconstruct)
              => <<cachedReleases', lastFetchTime'>> = Absent
           /\ (Unreadable /\ NothingProcessed /\ StartLatest)
              => RequestSent ]_vars

\* An instance constructed over a file that cannot be parsed, with caching
\* on, has sent its first call to the source.
C21_Witness ==
    /\ file = Garbage
    /\ checkInterval > 0
    /\ NothingProcessed
    /\ result = NoResult
    /\ Len(calls) = 1

\* The file parses as JSON but lacks the release list or the timestamp.
Partial ==
    /\ file.k = "json"
    /\ file.releases.k # "array" \/ file.lastFetchTime.k # "number"

\* C22: an instance constructed over a cache file that parses but does not
\* carry both a release list and a fetch timestamp treats the cache as
\* absent: its first resolving call invokes the source, is never served from
\* the cache and never fails because of the entry.
C22_PartialEntryIsAbsent ==
    [][ (Partial /\ NothingProcessed /\ StartLatest)
        => RequestSent /\ result' = result ]_vars

\* The list is in descending order of publish time.
SortedDescending(s) ==
    \A i, j \in DOMAIN s : i < j => Time(s[i]) >= Time(s[j])

\* C23: whenever the in-memory cache holds a release list, after a fetch or
\* after loading a file a notifier wrote, the list is sorted descending by
\* publish time; and right after a fetch it is a permutation of exactly what
\* the source returned: the previous entry is replaced wholesale and nothing
\* is filtered out before caching.
C23_CachedListSortedPermutation ==
    /\ [](cachedReleases.k = "array" => SortedDescending(cachedReleases.v))
    /\ [][ \A i \in DOMAIN calls : \A response \in Feeds : \A written \in Writes :
             CompleteFetch(i, response, written)
             => /\ cachedReleases'.k = "array"
                /\ IsPermutation(cachedReleases'.v, response) ]_vars

\* A response that was out of order and carried a draft and a prerelease has
\* been cached over a different earlier entry.
C23_Witness ==
    /\ result.invoked /\ result.ok /\ stamp # None
    /\ cachedReleases.k = "array"
    /\ cachedReleases.v # result.data
    /\ IsPermutation(cachedReleases.v, result.data)
    /\ \E i \in DOMAIN cachedReleases.v : cachedReleases.v[i].draft
    /\ fetchesLeft = MaxFetches - 2

\* C24: a checkVersion call that follows a completed checkVersion call with
\* the same arguments on the same instance, with no clearCache() between them
\* and starting while the cache is fresh, returns the same updateAvailable
\* and latestVersion, whatever the source would return by then.
C24_RepeatedCheckIsIdempotent ==
    [][ \A a \in CheckArgs :
          (/\ result.op = "checkVersion" /\ result.ok
           /\ result.version = a[2] /\ result.flag = a[3]
           /\ IsFresh(clock)
           /\ StartCall(a[1], a[2], a[3]))
          => /\ ~RequestSent
             /\ result'.ok /\ ~result'.invoked
             /\ result'.updateAvailable = result.updateAvailable
             /\ result'.latestVersion = result.latestVersion ]_vars

\* The second check was answered from the cache, some time after the only
\* fetch, and reports an update.
C24_Witness ==
    /\ result.op = "checkVersion" /\ result.ok /\ ~result.invoked
    /\ result.updateAvailable /\ result.latestVersion # None
    /\ fetchesLeft = MaxFetches - 1
    /\ stamp # None /\ clock > stamp[1]
    /\ calls = <<>>

\* C25: overlapping calls are not deduplicated.  A call that starts while the
\* cache is not fresh sends its own request, whether or not another request
\* is in flight, so the requests sent count the calls still waiting and
\* those already answered; and the call a response completes returns the
\* result computed from that response alone.
C25_EveryCallFetchesForItself ==
    /\ [](Len(calls) <= MaxFetches - fetchesLeft)
    /\ [][ /\ (~IsFresh(clock) /\ StartCheck)
              => /\ RequestSent
                 /\ fetchesLeft' = fetchesLeft - 1
                 /\ SubSeq(calls', 1, Len(calls)) = calls
           /\ \A i \in DOMAIN calls :
                Processed(i)
                => /\ result'.data \in Feeds
                   /\ result' = Resolve(calls[i], TRUE, result'.data,
                                        SortReleases(result'.data)) ]_vars

\* Two requests were sent by calls that started at the same instant; one has
\* been answered and the other is still waiting for its own response.
C25_Witness ==
    /\ fetchesLeft = MaxFetches - 2
    /\ Len(calls) = 1
    /\ result.invoked /\ result.ok
    /\ stamp = Some(calls[1].now)

\* C26: last writer wins without mixing.  Only the processing of a response
\* and clearCache() change the in-memory pair; a response replaces both
\* halves with the sorted list and the timestamp of that one fetch, a clear
\* replaces both with the cleared pair, and a disk write that succeeds stores
\* the pair just assigned (the cleared pair as an empty list with timestamp
\* 0).  So after any write the timestamp in memory is the one of the fetch
\* processed last.
C26_LastWriterWinsWholesale ==
    /\ [](stamp # None => /\ cachedReleases.k = "array"
                          /\ lastFetchTime = Num(stamp[1]))
    /\ [][ /\ \A i \in DOMAIN calls :
                Processed(i)
                => /\ cachedReleases' = Arr(SortReleases(result'.data))
                   /\ lastFetchTime' = Num(calls[i].now)
                   /\ file' \in {file, Json(cachedReleases', lastFetchTime')}
                   /\ cacheFilePath = None => file' = file
           /\ \A written \in Writes :
                ClearCache(written)
                => /\ <<cachedReleases', lastFetchTime'>> = Absent
                   /\ file' \in {file, EmptyEntry}
                   /\ (written /\ cacheFilePath # None) => file' = EmptyEntry
           /\ <<cachedReleases', lastFetchTime', file'>> # <<cachedReleases, lastFetchTime, file>>
              => (\E i \in DOMAIN calls : Processed(i)) \/ Clear ]_vars

\* A later-started fetch has been processed and written to the file while an
\* earlier-started request of the same instance is still in flight.
C26_Witness ==
    /\ Len(calls) = 1
    /\ stamp # None /\ calls[1].now < stamp[1]
    /\ cacheFilePath # None
    /\ file = Json(cachedReleases, lastFetchTime)
    /\ result.invoked /\ result.ok

\* C27: clearCache() is not undone by a fetch in flight.  From the return of
\* clearCache() until the next operation starts, every request still pending
\* was issued before the clear; in that span the cache never becomes fresh
\* again (so the next call cannot be answered from data requested before the
\* clear) and a cache file showing the cleared state keeps showing it.
C27_ClearSurvivesPendingFetch ==
    /\ [](cleared = Some(TRUE) => ~IsFresh(clock))
    /\ [][ (cleared = Some(TRUE) /\ file = EmptyEntry) => file' = EmptyEntry ]_vars

\* C28 as stated: the stored timestamp is the clock value read when the call
\* started, and, once this instance has stored a timestamp and as long as no
\* clearCache() intervenes, processing a response never lowers it.
C28_TimestampNeverDecreases ==
    [][ \A i \in DOMAIN calls :
          Processed(i)
          => /\ lastFetchTime' = Num(calls[i].now)
             /\ stamp # None => lastFetchTime'.n >= lastFetchTime.n ]_vars

\* C28 (amended): the stored timestamp is the clock value read when the call
\* started, never later than the arrival of its response; it is the start
\* time of the call processed last, and it moves backwards exactly when that
\* call started before the call processed previously.
C28_TimestampIsStartOfLastProcessed ==
    [][ \A i \in DOMAIN calls :
          Processed(i)
          => /\ lastFetchTime' = Num(calls[i].now)
             /\ calls[i].now <= clock
             /\ stamp # None
                => (lastFetchTime'.n < lastFetchTime.n <=> calls[i].now < stamp[1]) ]_vars

\* Two fetches only: the one started last was processed first and wrote the
\* file, then the one started first was processed, its write failed, and the
\* timestamp in memory went back to its start time.
C28_Witness ==
    /\ calls = <<>> /\ fetchesLeft = MaxFetches - 2
    /\ stamp = Some(Epoch)
    /\ lastFetchTime = Num(Epoch)
    /\ file.k = "json" /\ file.lastFetchTime = Num(Epoch + 2)
    /\ clock = Epoch + 2

\* C29: a failed fetch leaves the cache untouched.  The step that processes
\* a failure changes neither the list, nor the timestamp, nor the file; the
\* call is rejected with no release taken from the stale entry; and unless
\* another call's response refreshed the cache while this one was waiting,
\* the cache is still not fresh afterwards, so the next resolving call sends
\* a request.
C29_FailureLeavesCacheUntouched ==
    [][ /\ \A i \in DOMAIN calls :
             Failed(i)
             => /\ cachedReleases' = cachedReleases
                /\ lastFetchTime' = lastFetchTime
                /\ file' = file
                /\ result'.release = None /\ result'.latestVersion = None
                /\ ~IsFresh(calls[i].now) => ~IsFresh(clock)'
        /\ (result.invoked /\ ~result.ok /\ ~IsFresh(clock) /\ StartCheck)
           => RequestSent /\ result' = result ]_vars

\* The instance holds a list it fetched itself, now stale; the fetch of the
\* next call failed, the entry and the file are as before, and the call was
\* rejected.
C29_Witness ==
    /\ result.invoked /\ ~result.ok
    /\ stamp # None /\ checkInterval > 0 /\ ~IsFresh(clock)
    /\ Len(cachedReleases.v) > 0
    /\ file = Json(cachedReleases, lastFetchTime)
    /\ calls = <<>> /\ fetchesLeft = MaxFetches - 2

\* C30: every VersionCheckResult is consistent.  The currentVersion it
\* carries is the argument of the call, character for character; its
\* latestVersion is null exactly when its latestRelease is null; when they
\* are not null latestVersion is the tagName of latestRelease; and
\* updateAvailable = true comes only with a latestVersion.
C30_VersionCheckResultConsistent ==
    /\ []((result.op = "checkVersion" /\ result.ok)
          => /\ result.latestVersion = None <=> result.release = None
             /\ result.release # None
                => result.latestVersion = Some(result.release[1].tagName)
             /\ result.updateAvailable => result.latestVersion # None)
    /\ [][ \A i \in DOMAIN calls :
             (calls[i].op = "checkVersion" /\ Processed(i))
             => result'.op = "checkVersion" /\ result'.version = calls[i].version ]_vars

\* A check of " V1 " (which normalizes to "1") found a newer release:
\* the result echoes the argument with its blanks and its prefix.
C30_Witness ==
    /\ result.op = "checkVersion" /\ result.ok /\ result.invoked
    /\ result.version = <<" ", "V", "1", " ">>
    /\ result.updateAvailable
    /\ result.currentRelease # None
    /\ result.latestVersion # None

====
